---- MODULE Spec2Model ----
(***************************************************************************)
(* Model of finance.py: the threshold classifiers, the technical           *)
(* evaluator, the per-instrument scorers and the batch script that ranks   *)
(* a watch list.                                                           *)
(*                                                                         *)
(* Numbers are fixed-point hundredths (2.5 is 250), so every threshold of  *)
(* the tables and every value one step below or above it is an integer.    *)
(* totalAssets alone is counted in units of 10^9 (1e11 is 100), because    *)
(* its hundredths do not fit 32-bit integers.  Averages are exact         *)
(* fractions; the float quotient of the program differs from them by at    *)
(* most one unit in the last place, which none of the rating thresholds    *)
(* 8, 5, 3 can tell apart for the totals and counts that occur.            *)
(*                                                                         *)
(* A text line of the program is a sequence of string tokens: the          *)
(* substring tests and the split on "(score=" of the program become tests  *)
(* on tokens.  The Chinese texts are rendered in English.                  *)
(***************************************************************************)
EXTENDS Integers, Sequences, FiniteSets, TLC

VARIABLES pc, arg, ret, tkr, resultList, sorted_results, csv

vars == <<pc, arg, ret, tkr, resultList, sorted_results, csv>>

----------------------------------------------------------------------------
(* Python values a metric field can hold.                                  *)

None == [kind |-> "None", n |-> 0]

\* a non-numeric value, such as the string "Infinity"
Str == [kind |-> "str", n |-> 0]

\* float("nan"): every ordering comparison with it is False
NaN == [kind |-> "nan", n |-> 0]

Num(x) == [kind |-> "num", n |-> x]

\* value <= bound: the comparison a slip would write for value < bound
Le(value, bound) == value.kind = "num" /\ value.n <= bound

\* value < bound and value > bound on floats
Lt(value, bound) == value.kind = "num" /\ value.n < bound

Gt(value, bound) == value.kind = "num" /\ value.n > bound

\* a >= b of two floats: the comparison a slip would write for a > b
FloatGe(a, b) == a.kind = "num" /\ b.kind = "num" /\ a.n >= b.n

\* a > b and a < b of two floats
FloatGt(a, b) == a.kind = "num" /\ b.kind = "num" /\ a.n > b.n

FloatLt(a, b) == a.kind = "num" /\ b.kind = "num" /\ a.n < b.n

\* Python truthiness, as used by `a or b`
Truthy(value) ==
    CASE value.kind = "None" -> FALSE
      [] value.kind = "num" -> value.n # 0
      [] OTHER -> TRUE

\* a or b
Or(a, b) == IF Truthy(a) THEN a ELSE b

\* value * factor; a string is repeated and stays a string
Times(value, factor) ==
    IF value.kind = "num" THEN Num(value.n * factor) ELSE value

\* f"{x:.2f}": the digits of the hundredths
Fmt2(value) ==
    CASE value.kind = "num" -> ToString(value.n)
      [] value.kind = "nan" -> "nan"
      [] OTHER -> "ValueError"

----------------------------------------------------------------------------
(* The threshold tables.                                                   *)

THRESHOLDS ==
    [PE              |-> [low |-> 1000, high |-> 2500],
     PB              |-> [low |-> 100,  high |-> 500],
     Beta            |-> [low |-> 80,   high |-> 120],
     ROE             |-> [low |-> 10,   high |-> 20],
     DividendYield   |-> [low |-> 200,  high |-> 600],
     PEG             |-> [low |-> 100,  high |-> 200],
     OperatingMargin |-> [low |-> 10,   high |-> 30],
     DebtToEquity    |-> [low |-> 5000, high |-> 10000],
     CurrentRatio    |-> [low |-> 100,  high |-> 200],
     QuickRatio      |-> [low |-> 100,  high |-> 200],
     RevenueGrowth   |-> [low |-> 5,    high |-> 20],
     EarningsGrowth  |-> [low |-> 5,    high |-> 20]]

\* totalAssets in units of 10^9
ETF_THRESHOLDS ==
    [ETF_PE                 |-> [low |-> 1000, high |-> 2500],
     ETF_Yield              |-> [low |-> 200,  high |-> 600],
     ETF_Beta3Y             |-> [low |-> 80,   high |-> 120],
     threeYearAverageReturn |-> [low |-> 3,    high |-> 10],
     fiveYearAverageReturn  |-> [low |-> 3,    high |-> 10],
     totalAssets            |-> [low |-> 100,  high |-> 500]]

TECHNICAL_THRESHOLDS ==
    [RSI |-> [low |-> 3000, high |-> 7000],
     ADX |-> [low |-> 2000, high |-> 4000]]

----------------------------------------------------------------------------
(* What a classifier call does: it returns (level, note, score) or it      *)
(* raises.  level "None" with the empty note and score 0 is the absent     *)
(* classification.                                                         *)

Return(level, note, score) ==
    [exc |-> "", level |-> level, note |-> note, score |-> score]

Raise(exc) == [exc |-> exc, level |-> "None", note |-> <<>>, score |-> 0]

\* f"{x*100:.2f}%" unless the metric is a plain ratio
Display(x, metric_key) ==
    IF metric_key \notin {"CurrentRatio", "QuickRatio"}
    THEN <<ToString(x * 100), "%">>
    ELSE <<ToString(x)>>

compare_with_threshold(value, metric_key) ==
    IF metric_key \notin DOMAIN THRESHOLDS \/ value = None
    THEN Return("None", <<>>, 0)
    ELSE
      LET low == THRESHOLDS[metric_key].low
          high == THRESHOLDS[metric_key].high
          less_is_better == {"PE", "PB", "PEG", "Beta", "DebtToEquity"}
          more_is_better == {"ROE", "OperatingMargin", "DividendYield",
                             "CurrentRatio", "QuickRatio", "RevenueGrowth",
                             "EarningsGrowth"}
      IN
      IF metric_key \in less_is_better THEN
          IF value.kind = "str" THEN Raise("TypeError")
          ELSE IF Lt(value, low) THEN
              Return("LOW", <<"clearly below the reference (", ToString(low),
                              "), favourable to the investor">>, 10)
          ELSE IF Gt(value, high) THEN
              Return("HIGH", <<"above the reference (", ToString(high),
                               "), mind the risk of overvaluation">>, 2)
          ELSE
              Return("MID", <<"between ", ToString(low), " ~ ",
                              ToString(high)>>, 5)
      ELSE IF metric_key \in more_is_better THEN
          IF value.kind = "str" THEN Raise("TypeError")
          ELSE IF Lt(value, low) THEN
              Return("LOW", <<"below the reference (">>
                            \o Display(low, metric_key) \o <<")">>, 2)
          ELSE IF Gt(value, high) THEN
              Return("HIGH", <<"above the reference (">>
                             \o Display(high, metric_key)
                             \o <<"), commendable">>, 10)
          ELSE
              Return("MID", <<"within the reasonable range ">>
                            \o Display(low, metric_key) \o <<" ~ ">>
                            \o Display(high, metric_key), 5)
      ELSE Return("None", <<>>, 0)

etf_compare_with_threshold(value, metric_key) ==
    IF metric_key \notin DOMAIN ETF_THRESHOLDS \/ value = None
    THEN Return("None", <<>>, 0)
    ELSE
      LET low == ETF_THRESHOLDS[metric_key].low
          high == ETF_THRESHOLDS[metric_key].high
          less_is_better == {"ETF_PE"}
          more_is_better == {"ETF_Yield", "totalAssets",
                             "threeYearAverageReturn",
                             "fiveYearAverageReturn"}
      IN
      IF metric_key = "ETF_Beta3Y" THEN
          IF value.kind = "str" THEN Raise("TypeError")
          ELSE IF Lt(value, low) THEN
              Return("LOW", <<"volatility below the market average (",
                              ToString(low), ")">>, 6)
          ELSE IF Gt(value, high) THEN
              Return("HIGH", <<"volatility above the market average (",
                               ToString(high), "), higher risk">>, 4)
          ELSE
              Return("MID", <<"in the volatility band ", ToString(low),
                              " ~ ", ToString(high)>>, 8)
      ELSE IF metric_key \in less_is_better THEN
          IF value.kind = "str" THEN Raise("TypeError")
          ELSE IF Lt(value, low) THEN
              Return("LOW", <<"clearly below the reference (", ToString(low),
                              "), favourable to the investor">>, 10)
          ELSE IF Gt(value, high) THEN
              Return("HIGH", <<"above the reference (", ToString(high),
                               "), mind the risk of overvaluation">>, 2)
          ELSE
              Return("MID", <<"between ", ToString(low), "~",
                              ToString(high)>>, 5)
      ELSE IF metric_key \in more_is_better THEN
          IF value.kind = "str" THEN Raise("TypeError")
          ELSE IF Lt(value, low) THEN
              Return("LOW", <<"below the reference (", ToString(low),
                              ")">>, 2)
          ELSE IF Gt(value, high) THEN
              Return("HIGH", <<"above the reference (", ToString(high),
                               "), doing well">>, 10)
          ELSE
              Return("MID", <<"in the band ", ToString(low), "~",
                              ToString(high)>>, 5)
      ELSE Return("None", <<>>, 0)

----------------------------------------------------------------------------
(* Fractions: total / count of the program, kept exact and in lowest       *)
(* terms, so that equal averages are equal values.                         *)

RECURSIVE GCD(_, _)
GCD(a, b) == IF b = 0 THEN a ELSE GCD(b, a % b)

Frac(n, d) ==
    LET g == GCD(n, d)
    IN  IF n = 0 THEN [num |-> 0, den |-> 1]
        ELSE [num |-> n \div g, den |-> d \div g]

Zero == Frac(0, 1)

\* a > k: the comparison a slip would write for a >= k
GtInt(a, k) == a.num > k * a.den

\* a >= k for a fraction a and an integer k
GeInt(a, k) == a.num >= k * a.den

\* a > b for fractions
FracGt(a, b) == a.num * b.den > b.num * a.den

\* a + b: the sum a slip would leave undivided
FracSum(a, b) == Frac(a.num * b.den + b.num * a.den, a.den * b.den)

\* (a + b) / 2
HalfSum(a, b) == Frac(a.num * b.den + b.num * a.den, 2 * a.den * b.den)

----------------------------------------------------------------------------
(* The technical evaluator.  A signal yields its line and, when its data   *)
(* is there, a score and one more valid signal.                            *)

\* the text "data missing" of a line without data
MISSING == "data missing"

\* the text "no price history" of the line for an empty history
NO_HISTORY == "no price history, indicators cannot be computed"

Signal(comment, score, valid) ==
    [comment |-> comment, score |-> score, valid |-> valid]

rsi_signal(indicators) ==
    LET rsi == indicators.RSI
    IN  IF rsi # None THEN
            IF Lt(rsi, TECHNICAL_THRESHOLDS.RSI.low) THEN
                Signal(<<"- RSI: ", Fmt2(rsi), " (oversold, may rebound) ",
                         "(score=", "8", ")">>, 8, 1)
            ELSE IF Gt(rsi, TECHNICAL_THRESHOLDS.RSI.high) THEN
                Signal(<<"- RSI: ", Fmt2(rsi), " (overbought, may pull back) ",
                         "(score=", "6", ")">>, 6, 1)
            ELSE
                Signal(<<"- RSI: ", Fmt2(rsi), " (normal range) ",
                         "(score=", "7", ")">>, 7, 1)
        ELSE Signal(<<"- RSI: ", MISSING>>, 0, 0)

macd_signal(indicators) ==
    LET macd == indicators.MACD
        macd_signal_line == indicators.MACD_Signal
    IN  IF macd # None /\ macd_signal_line # None THEN
            IF FloatGt(macd, macd_signal_line)
            THEN Signal(<<"- MACD: positive (buy signal) ",
                          "(score=", "8", ")">>, 8, 1)
            ELSE Signal(<<"- MACD: negative (sell signal) ",
                          "(score=", "6", ")">>, 6, 1)
        ELSE Signal(<<"- MACD: ", MISSING>>, 0, 0)

\* the pair evaluated with the death cross scored 2, the low score of the
\* fundamental tables
sma_signal_scores_two(indicators) ==
    LET sma_50 == indicators.SMA_50
        sma_200 == indicators.SMA_200
    IN  IF sma_50 # None /\ sma_200 # None THEN
            IF FloatGt(sma_50, sma_200)
            THEN Signal(<<"- SMA50 > SMA200 (golden cross, trend up) ",
                          "(score=", "9", ")">>, 9, 1)
            ELSE Signal(<<"- SMA50 < SMA200 (death cross, trend down) ",
                          "(score=", "2", ")">>, 2, 1)
        ELSE Signal(<<"- SMA50/SMA200: ", MISSING>>, 0, 0)

sma_signal(indicators) ==
    LET sma_50 == indicators.SMA_50
        sma_200 == indicators.SMA_200
    IN  IF sma_50 # None /\ sma_200 # None THEN
            IF FloatGt(sma_50, sma_200)
            THEN Signal(<<"- SMA50 > SMA200 (golden cross, trend up) ",
                          "(score=", "9", ")">>, 9, 1)
            ELSE Signal(<<"- SMA50 < SMA200 (death cross, trend down) ",
                          "(score=", "5", ")">>, 5, 1)
        ELSE Signal(<<"- SMA50/SMA200: ", MISSING>>, 0, 0)

adx_signal(indicators) ==
    LET adx == indicators.ADX
    IN  IF adx # None THEN
            IF Lt(adx, TECHNICAL_THRESHOLDS.ADX.low) THEN
                Signal(<<"- ADX: ", Fmt2(adx), " (weak trend) ",
                         "(score=", "5", ")">>, 5, 1)
            ELSE IF Gt(adx, TECHNICAL_THRESHOLDS.ADX.high) THEN
                Signal(<<"- ADX: ", Fmt2(adx), " (strong trend) ",
                         "(score=", "8", ")">>, 8, 1)
            ELSE
                Signal(<<"- ADX: ", Fmt2(adx), " (moderate trend) ",
                         "(score=", "6", ")">>, 6, 1)
        ELSE Signal(<<"- ADX: ", MISSING>>, 0, 0)

volume_signal(indicators) ==
    LET volume_trend == indicators.Volume_Trend
    IN  IF volume_trend # "None" THEN
            IF volume_trend = "increasing" THEN
                Signal(<<"- volume trend: increasing (trend confirmed) ",
                         "(score=", "7", ")">>, 7, 1)
            ELSE IF volume_trend = "decreasing" THEN
                Signal(<<"- volume trend: decreasing (trend may weaken) ",
                         "(score=", "5", ")">>, 5, 1)
            ELSE
                Signal(<<"- volume trend: no clear trend ",
                         "(score=", "6", ")">>, 6, 1)
        ELSE Signal(<<"- volume trend: ", MISSING>>, 0, 0)

technical_compare_with_threshold(indicators) ==
    LET signals == <<rsi_signal(indicators), macd_signal(indicators),
                     sma_signal(indicators), adx_signal(indicators),
                     volume_signal(indicators)>>
        comments == [k \in 1..5 |-> signals[k].comment]
        total_score == signals[1].score + signals[2].score + signals[3].score
                       + signals[4].score + signals[5].score
        valid_count == signals[1].valid + signals[2].valid + signals[3].valid
                       + signals[4].valid + signals[5].valid
        avg_score == IF valid_count > 0 THEN Frac(total_score, valid_count)
                     ELSE Zero
    IN  [comments |-> comments, total_score |-> total_score,
         avg_score |-> avg_score]

----------------------------------------------------------------------------
(* Letter ratings.                                                         *)

\* the text "cannot be rated" of a category without a valid score
UNRATABLE == "unratable"

\* the if / elif chain that turns an average into a letter
rating(avg_score) ==
    IF GeInt(avg_score, 8) THEN "A"
    ELSE IF GeInt(avg_score, 5) THEN "B"
    ELSE IF GeInt(avg_score, 3) THEN "C"
    ELSE "D"

----------------------------------------------------------------------------
(* Text lines as token sequences.                                          *)

\* tok in line
Contains(line, tok) == \E k \in 1..Len(line) : line[k] = tok

\* line.split("(score=")[-1]: what follows the last "(score="
AfterLastScore(line) ==
    LET at == {k \in 1..Len(line) : line[k] = "(score="}
        last == CHOOSE k \in at : \A j \in at : j <= k
    IN  IF at = {} THEN line ELSE SubSeq(line, last + 1, Len(line))

\* text.rstrip(")")
RECURSIVE RStrip(_)
RStrip(text) ==
    IF text # <<>> /\ text[Len(text)] = ")"
    THEN RStrip(SubSeq(text, 1, Len(text) - 1))
    ELSE text

\* int(text): the number a digit string denotes, -1 for a ValueError
ParseInt(text) ==
    IF Len(text) = 1 /\ \E n \in 0..99 : ToString(n) = text[1]
    THEN CHOOSE n \in 0..99 : ToString(n) = text[1]
    ELSE -1

\* int(s.split("(score=")[-1].rstrip(")"))
ParseScore(line) == ParseInt(RStrip(AfterLastScore(line)))

RECURSIVE SeqSum(_)
SeqSum(xs) == IF xs = <<>> THEN 0 ELSE xs[1] + SeqSum(Tail(xs))

\* [x for x in xs if keep(x)]
RECURSIVE ScoredLines(_)
ScoredLines(lines) ==
    IF lines = <<>> THEN <<>>
    ELSE IF Contains(lines[1], "(score=")
         THEN <<lines[1]>> \o ScoredLines(Tail(lines))
         ELSE ScoredLines(Tail(lines))

----------------------------------------------------------------------------
(* The technical part of both scorers.  hist is what the price service     *)
(* and the indicator library give for the symbol: kind "raises" when the   *)
(* download or an indicator raises, "empty" for an empty frame, "bars"     *)
(* with the last value of each indicator and the two mean volumes          *)
(* otherwise.  The message of an exception holds no "score=".              *)

Get(info, key) == IF key \in DOMAIN info THEN info[key] ELSE None

volume_trend(hist) ==
    IF FloatGt(hist.recent_vol, hist.previous_vol) THEN "increasing"
    ELSE IF FloatLt(hist.recent_vol, hist.previous_vol) THEN "decreasing"
    ELSE "stable"

\* the body of the try block once the history has been downloaded
technical_body(hist) ==
    IF hist.kind = "empty" THEN
        << <<"- technical indicators: ", NO_HISTORY>> >>
    ELSE
        LET indicators == [RSI |-> hist.RSI, MACD |-> hist.MACD,
                           MACD_Signal |-> hist.MACD_Signal,
                           SMA_50 |-> hist.SMA_50, SMA_200 |-> hist.SMA_200,
                           ADX |-> hist.ADX,
                           Volume_Trend |-> volume_trend(hist)]
        IN  technical_compare_with_threshold(indicators).comments

\* the try block without its except clause: a failure leaves the function
technical_try_uncaught(hist) ==
    IF hist.kind = "raises" THEN [exc |-> "Exception", comments |-> <<>>]
    ELSE [exc |-> "", comments |-> technical_body(hist)]

\* the try block with its except clause: the technical comments it leaves,
\* and no exception
technical_try(hist) ==
    IF hist.kind = "raises" THEN
        [exc |-> "",
         comments |->
            << <<"- technical indicators: computation failed (", "e", ")">> >>]
    ELSE [exc |-> "", comments |-> technical_body(hist)]

\* the technical average and rating, recovered from the comments
technical_rating_of(technical_comments) ==
    LET unrated == [exc |-> "", technical_total_score |-> 0,
                    technical_valid_count |-> 0,
                    technical_avg_score |-> Zero,
                    technical_rating |-> UNRATABLE,
                    technical_comments |-> technical_comments
                        \o << <<"[technical rating] too few indicators, ",
                                UNRATABLE>> >>]
    IN
    IF technical_comments # <<>>
       /\ ~ \A k \in 1..Len(technical_comments) :
              \/ Contains(technical_comments[k], MISSING)
              \/ Contains(technical_comments[k], NO_HISTORY)
    THEN
        LET scored == ScoredLines(technical_comments)
            tech_scores == [k \in 1..Len(scored) |-> ParseScore(scored[k])]
        IN
        IF \E k \in 1..Len(tech_scores) : tech_scores[k] < 0
        THEN [exc |-> "ValueError"]
        ELSE IF tech_scores # <<>> THEN
            LET technical_total_score == SeqSum(tech_scores)
                technical_valid_count == Len(tech_scores)
                technical_avg_score ==
                    Frac(technical_total_score, technical_valid_count)
                technical_rating == rating(technical_avg_score)
            IN  [exc |-> "",
                 technical_total_score |-> technical_total_score,
                 technical_valid_count |-> technical_valid_count,
                 technical_avg_score |-> technical_avg_score,
                 technical_rating |-> technical_rating,
                 technical_comments |-> technical_comments
                     \o << <<"[technical rating] average ",
                             ToString(technical_avg_score.num), "/",
                             ToString(technical_avg_score.den), " -> grade ",
                             technical_rating>> >>]
        ELSE unrated
    ELSE unrated

----------------------------------------------------------------------------
(* The fundamental part of the equity scorer.  info is the dict of the     *)
(* quote service: a function from the field names it holds to values.      *)
(* Besides what the program returns, a result keeps the valid counts and   *)
(* the classification of every scored metric (levels), which the program   *)
(* holds in local variables.                                               *)

equity_metrics(info) ==
    LET dividend_yield ==
            IF Get(info, "dividendYield") # None
            THEN Times(Get(info, "dividendYield"), 100)
            ELSE None
        peg == Or(Get(info, "trailingPegRatio"), Get(info, "pegRatio"))
        earnings_growth == Or(Get(info, "earningsQuarterlyGrowth"),
                              Get(info, "earningsGrowth"))
    IN  << [k |-> "PE", v |-> Get(info, "trailingPE")],
           [k |-> "PB", v |-> Get(info, "priceToBook")],
           [k |-> "Beta", v |-> Get(info, "beta")],
           [k |-> "ROE", v |-> Get(info, "returnOnEquity")],
           [k |-> "DividendYield", v |-> dividend_yield],
           [k |-> "PEG", v |-> peg],
           [k |-> "OperatingMargin", v |-> Get(info, "operatingMargins")],
           [k |-> "DebtToEquity", v |-> Get(info, "debtToEquity")],
           [k |-> "CurrentRatio", v |-> Get(info, "currentRatio")],
           [k |-> "QuickRatio", v |-> Get(info, "quickRatio")],
           [k |-> "RevenueGrowth", v |-> Get(info, "revenueGrowth")],
           [k |-> "EarningsGrowth", v |-> earnings_growth] >>

equity_display_value(k, v) ==
    IF k \in {"OperatingMargin", "RevenueGrowth", "EarningsGrowth", "ROE"}
    THEN <<Fmt2(Times(v, 100)), "%">>
    ELSE IF k = "DividendYield" THEN <<Fmt2(v), "%">>
    ELSE <<Fmt2(v)>>

NoScores ==
    [exc |-> "", comments |-> <<>>, total |-> 0, count |-> 0,
     levels |-> <<>>]

\* a turn that counts the metric before it looks whether its value is there
loop_turn_counts_first(acc, k, v, c, display_value) ==
    IF acc.exc # "" THEN acc
    ELSE IF v = None THEN
        [acc EXCEPT !.comments = Append(@, <<"- ", k, ": ", MISSING>>),
                    !.count = @ + 1]
    ELSE IF c.exc # "" THEN [acc EXCEPT !.exc = c.exc]
    ELSE [acc EXCEPT
            !.comments = Append(@, <<"- ", k, ": ">> \o display_value
                                   \o <<" => ">> \o c.note
                                   \o <<" (score=", ToString(c.score), ")">>),
            !.total = @ + c.score,
            !.count = @ + 1,
            !.levels = Append(@, [k |-> k, level |-> c.level,
                                  score |-> c.score])]

\* one turn of the loop over the metrics: acc is the state before it,
\* c the classification of v
loop_turn(acc, k, v, c, display_value) ==
    IF acc.exc # "" THEN acc
    ELSE IF v = None THEN
        [acc EXCEPT !.comments = Append(@, <<"- ", k, ": ", MISSING>>)]
    ELSE IF c.exc # "" THEN [acc EXCEPT !.exc = c.exc]
    ELSE [acc EXCEPT
            !.comments = Append(@, <<"- ", k, ": ">> \o display_value
                                   \o <<" => ">> \o c.note
                                   \o <<" (score=", ToString(c.score), ")">>),
            !.total = @ + c.score,
            !.count = @ + 1,
            !.levels = Append(@, [k |-> k, level |-> c.level,
                                  score |-> c.score])]

\* the state of the loop after its first n turns
RECURSIVE equity_loop(_, _)
equity_loop(metrics, n) ==
    IF n = 0 THEN NoScores
    ELSE loop_turn(equity_loop(metrics, n - 1), metrics[n].k, metrics[n].v,
                   compare_with_threshold(metrics[n].v, metrics[n].k),
                   equity_display_value(metrics[n].k, metrics[n].v))

\* average, rating and rating line of the fundamental category
fundamental_rating_of(fundamental_total_score, fundamental_valid_count) ==
    IF fundamental_valid_count > 0 THEN
        LET fundamental_avg_score ==
                Frac(fundamental_total_score, fundamental_valid_count)
            fundamental_rating == rating(fundamental_avg_score)
        IN  [avg |-> fundamental_avg_score, rating |-> fundamental_rating,
             line |-> <<"[fundamental rating] average ",
                        ToString(fundamental_avg_score.num), "/",
                        ToString(fundamental_avg_score.den), " -> grade ",
                        fundamental_rating>>]
    ELSE [avg |-> Zero, rating |-> UNRATABLE,
          line |-> <<"[fundamental rating] too few indicators, ",
                     UNRATABLE>>]

\* the two categories put together: the dict a scorer returns
analysis_result(info, loop, hist) ==
    IF loop.exc # "" THEN [exc |-> loop.exc]
    ELSE
      LET symbol == IF "symbol" \in DOMAIN info THEN info.symbol ELSE "UNKNOWN"
          short_name == IF "shortName" \in DOMAIN info THEN info.shortName
                        ELSE ""
          fund == fundamental_rating_of(loop.total, loop.count)
          fundamental_comments ==
              << <<"**[fundamental analysis] ", symbol, " / ", short_name,
                   "**">> >> \o loop.comments \o <<fund.line>>
          tried == technical_try(hist)
          tech == technical_rating_of(tried.comments)
      IN
      IF tried.exc # "" THEN [exc |-> tried.exc]
      ELSE IF tech.exc # "" THEN [exc |-> tech.exc]
      ELSE [exc |-> "",
            symbol |-> symbol,
            shortName |-> short_name,
            fundamental_total_score |-> loop.total,
            fundamental_avg_score |-> fund.avg,
            fundamental_rating |-> fund.rating,
            technical_total_score |-> tech.technical_total_score,
            technical_avg_score |-> tech.technical_avg_score,
            technical_rating |-> tech.technical_rating,
            analysis_text |-> fundamental_comments \o tech.technical_comments,
            fundamental_valid_count |-> loop.count,
            technical_valid_count |-> tech.technical_valid_count,
            levels |-> loop.levels]

advanced_equity_analysis(info, hist) ==
    LET metrics == equity_metrics(info)
    IN  analysis_result(info, equity_loop(metrics, Len(metrics)), hist)

----------------------------------------------------------------------------
(* The ETF scorer.                                                         *)

etf_metrics(info) ==
    LET etf_yield ==
            IF Get(info, "yield") # None
            THEN Times(Get(info, "yield"), 100)
            ELSE None
    IN  << [k |-> "ETF_PE", v |-> Get(info, "trailingPE")],
           [k |-> "ETF_Yield", v |-> etf_yield],
           [k |-> "totalAssets", v |-> Get(info, "totalAssets")],
           [k |-> "ETF_Beta3Y", v |-> Get(info, "beta3Year")],
           [k |-> "threeYearAverageReturn",
            v |-> Get(info, "threeYearAverageReturn")],
           [k |-> "fiveYearAverageReturn",
            v |-> Get(info, "fiveYearAverageReturn")] >>

etf_display_value(k, v) ==
    IF k \in {"ETF_Yield"} THEN <<Fmt2(v), "%">>
    ELSE IF k \in {"threeYearAverageReturn", "fiveYearAverageReturn"}
    THEN <<Fmt2(Times(v, 100)), "%">>
    ELSE IF k = "totalAssets" THEN <<Fmt2(v), ",000,000,000">>
    ELSE <<Fmt2(v)>>

RECURSIVE etf_loop(_, _)
etf_loop(metrics, n) ==
    IF n = 0 THEN NoScores
    ELSE loop_turn(etf_loop(metrics, n - 1), metrics[n].k, metrics[n].v,
                   etf_compare_with_threshold(metrics[n].v, metrics[n].k),
                   etf_display_value(metrics[n].k, metrics[n].v))

advanced_etf_analysis(info, hist) ==
    LET metrics == etf_metrics(info)
    IN  analysis_result(info, etf_loop(metrics, Len(metrics)), hist)

----------------------------------------------------------------------------
(* analyze_ticker.  quote is what the quote service answers for the        *)
(* ticker: kind "raises" when reading the info raises, else the info dict  *)
(* and, for the two scorers, the price history.                            *)

analyze_ticker(ticker_symbol, quote) ==
    IF quote.kind = "raises" THEN [exc |-> "Exception"]
    ELSE
      LET info == quote.info
          quote_type == IF "quoteType" \in DOMAIN info THEN info.quoteType
                        ELSE ""
      IN
      IF quote_type = "EQUITY" THEN advanced_equity_analysis(info, quote.hist)
      ELSE IF quote_type = "ETF" THEN advanced_etf_analysis(info, quote.hist)
      ELSE [exc |-> "",
            symbol |-> ticker_symbol,
            shortName |-> IF "shortName" \in DOMAIN info THEN info.shortName
                          ELSE "",
            fundamental_total_score |-> 0,
            fundamental_avg_score |-> Zero,
            fundamental_rating |-> UNRATABLE,
            technical_total_score |-> 0,
            technical_avg_score |-> Zero,
            technical_rating |-> UNRATABLE,
            analysis_text |-> << <<ticker_symbol, " quoteType=", quote_type,
                                   ", advanced analysis not supported">> >>,
            fundamental_valid_count |-> 0,
            technical_valid_count |-> 0,
            levels |-> <<>>]

----------------------------------------------------------------------------
(* The classifiers on their own: a call with a metric name and a value of  *)
(* the bounded sets below, then its return.                                *)

\* no argument, no result: the value of a variable a specification leaves alone
Nil == [kind |-> "nil"]

\* a name no table lists
UnknownMetric == "Unknown"

\* the values tried against a band: absent, a string, nan, zero, a negative
\* number, and one step either side of each bound
BandValues(band) ==
    {None, Str, NaN, Num(0), Num(-1)}
    \cup {Num(band.low + d) : d \in {-1, 0, 1}}
    \cup {Num(band.high + d) : d \in {-1, 0, 1}}

ClassifierCalls ==
    {[fn |-> "compare_with_threshold", value |-> v, metric_key |-> m] :
        m \in DOMAIN THRESHOLDS, v \in UNION {BandValues(THRESHOLDS[k]) : k \in DOMAIN THRESHOLDS}}
    \cup {[fn |-> "etf_compare_with_threshold", value |-> v, metric_key |-> m] :
        m \in DOMAIN ETF_THRESHOLDS, v \in UNION {BandValues(ETF_THRESHOLDS[k]) : k \in DOMAIN ETF_THRESHOLDS}}
    \cup {[fn |-> f, value |-> v, metric_key |-> UnknownMetric] :
        f \in {"compare_with_threshold", "etf_compare_with_threshold"},
        v \in {None, Str, Num(0)}}

Idle ==
    /\ tkr = 0
    /\ resultList = <<>>
    /\ sorted_results = <<>>
    /\ csv = <<>>

InitClassify ==
    /\ pc = "classify"
    /\ arg \in ClassifierCalls
    /\ ret = Nil
    /\ Idle

CompareWithThreshold ==
    /\ pc = "classify"
    /\ arg.fn = "compare_with_threshold"
    /\ ret' = compare_with_threshold(arg.value, arg.metric_key)
    /\ pc' = "classified"
    /\ UNCHANGED <<arg, tkr, resultList, sorted_results, csv>>

EtfCompareWithThreshold ==
    /\ pc = "classify"
    /\ arg.fn = "etf_compare_with_threshold"
    /\ ret' = etf_compare_with_threshold(arg.value, arg.metric_key)
    /\ pc' = "classified"
    /\ UNCHANGED <<arg, tkr, resultList, sorted_results, csv>>

NextClassify == CompareWithThreshold \/ EtfCompareWithThreshold

SpecClassify == InitClassify /\ [][NextClassify]_vars

----------------------------------------------------------------------------
(* One instrument on its own: analyze_ticker called with an answer of the  *)
(* quote service, then its return or its exception.                        *)

\* how many fields of an info dict hold a value
MaxPresent == 2

\* the band of the metric a raw field feeds, on the scale of the raw field
\* (the two yields are multiplied by 100 before they are classified)
EquityFieldBand ==
    [trailingPE              |-> THRESHOLDS.PE,
     priceToBook             |-> THRESHOLDS.PB,
     beta                    |-> THRESHOLDS.Beta,
     returnOnEquity          |-> THRESHOLDS.ROE,
     dividendYield           |->
         [low  |-> THRESHOLDS.DividendYield.low \div 100,
          high |-> THRESHOLDS.DividendYield.high \div 100],
     trailingPegRatio        |-> THRESHOLDS.PEG,
     pegRatio                |-> THRESHOLDS.PEG,
     operatingMargins        |-> THRESHOLDS.OperatingMargin,
     debtToEquity            |-> THRESHOLDS.DebtToEquity,
     currentRatio            |-> THRESHOLDS.CurrentRatio,
     quickRatio              |-> THRESHOLDS.QuickRatio,
     revenueGrowth           |-> THRESHOLDS.RevenueGrowth,
     earningsQuarterlyGrowth |-> THRESHOLDS.EarningsGrowth,
     earningsGrowth          |-> THRESHOLDS.EarningsGrowth]

EtfFieldBand ==
    [trailingPE             |-> ETF_THRESHOLDS.ETF_PE,
     yield                  |->
         [low  |-> ETF_THRESHOLDS.ETF_Yield.low \div 100,
          high |-> ETF_THRESHOLDS.ETF_Yield.high \div 100],
     totalAssets            |-> ETF_THRESHOLDS.totalAssets,
     beta3Year              |-> ETF_THRESHOLDS.ETF_Beta3Y,
     threeYearAverageReturn |-> ETF_THRESHOLDS.threeYearAverageReturn,
     fiveYearAverageReturn  |-> ETF_THRESHOLDS.fiveYearAverageReturn]

\* what a present field may hold: a string, zero, a number below the band,
\* the lower bound itself, a number above the band
ValueClasses == {"str", "zero", "below", "low", "above"}

ClassValue(band, cls) ==
    CASE cls = "str"   -> Str
      [] cls = "zero"  -> Num(0)
      [] cls = "below" -> Num(band.low - 1)
      [] cls = "low"   -> Num(band.low)
      [] cls = "above" -> Num(band.high + 1)

\* zero is a case of its own only for the fields read through `or`; for
\* the others it is one more number below the band
FieldClasses(k) ==
    IF k \in {"trailingPegRatio", "pegRatio", "earningsQuarterlyGrowth",
              "earningsGrowth"}
    THEN ValueClasses
    ELSE ValueClasses \ {"zero"}

ClassChoices(S) ==
    {cls \in [S -> ValueClasses] : \A k \in S : cls[k] \in FieldClasses(k)}

\* the info dict of a class whose fields S hold the values of classes cls;
\* the service answers with the symbol it was asked for
InfoDict(symbol, quote_type, bands, S, cls) ==
    [k \in S \cup {"quoteType", "symbol", "shortName"} |->
        CASE k = "quoteType" -> quote_type
          [] k = "symbol"    -> symbol
          [] k = "shortName" -> "name"
          [] OTHER           -> ClassValue(bands[k], cls[k])]

FieldBands(quote_type) ==
    IF quote_type = "EQUITY" THEN EquityFieldBand ELSE EtfFieldBand

\* the sets of at most MaxPresent fields
FieldSets(bands) ==
    {X \in SUBSET DOMAIN bands : Cardinality(X) <= MaxPresent}

\* the price histories: a failing download or indicator, an empty frame,
\* and bars whose four library indicators all take their best score, all
\* their worst, are all nan or all absent, with the volume rising or falling
IndicatorLevels == {"best", "worst", "nan", "absent"}

Bars(level, rising) ==
    LET rsi == TECHNICAL_THRESHOLDS.RSI
        adx == TECHNICAL_THRESHOLDS.ADX
        pick(best, worst) ==
            CASE level = "best"   -> best
              [] level = "worst"  -> worst
              [] level = "nan"    -> NaN
              [] level = "absent" -> None
    IN  [kind |-> "bars",
         RSI |-> pick(Num(rsi.low - 1), Num(rsi.high + 1)),
         MACD |-> pick(Num(1), Num(0)),
         MACD_Signal |-> pick(Num(0), Num(1)),
         SMA_50 |-> pick(Num(1), Num(0)),
         SMA_200 |-> pick(Num(0), Num(1)),
         ADX |-> pick(Num(adx.high + 1), Num(adx.low - 1)),
         recent_vol |-> IF rising THEN Num(1) ELSE Num(0),
         previous_vol |-> IF rising THEN Num(0) ELSE Num(1)]

Histories ==
    {[kind |-> "raises"], [kind |-> "empty"]}
    \cup {Bars(level, rising) : level \in IndicatorLevels, rising \in BOOLEAN}

\* an instrument of a class the script does not score
Unsupported(symbol) ==
    [kind |-> "info",
     info |-> [quoteType |-> "MUTUALFUND", symbol |-> symbol,
               shortName |-> "name"],
     hist |-> [kind |-> "empty"]]

InitScore ==
    /\ pc = "analyze"
    /\ \/ arg = [kind |-> "raises"]
       \/ arg = Unsupported("T1")
       \/ \E quote_type \in {"EQUITY", "ETF"} :
            \E S \in FieldSets(FieldBands(quote_type)) :
              \E cls \in ClassChoices(S), hist \in Histories :
                arg = [kind |-> "info",
                       info |-> InfoDict("T1", quote_type,
                                         FieldBands(quote_type), S, cls),
                       hist |-> hist]
    /\ ret = Nil
    /\ Idle

AnalyzeOne ==
    /\ pc = "analyze"
    /\ ret' = analyze_ticker("T1", arg)
    /\ pc' = IF ret'.exc = "" THEN "analyzed" ELSE "raised"
    /\ UNCHANGED <<arg, tkr, resultList, sorted_results, csv>>

NextScore == AnalyzeOne

SpecScore == InitScore /\ [][NextScore]_vars

----------------------------------------------------------------------------
(* The script: it analyses the tickers of the watch list one by one, adds  *)
(* the overall figures to every result, sorts the results and saves them.  *)
(* An exception that leaves analyze_ticker is caught nowhere and ends the  *)
(* process.                                                                *)

\* tickers on the watch list
WatchLen == 3

watch_list == [k \in 1..WatchLen |-> "T" \o ToString(k)]

\* reversed(xs)
Reverse(xs) == [k \in 1..Len(xs) |-> xs[Len(xs) + 1 - k]]

\* x.get("overall_avg_score", 0)
SortKey(x) ==
    IF "overall_avg_score" \in DOMAIN x THEN x.overall_avg_score ELSE Zero

\* x put behind every element of the ascending xs whose key is not greater
RECURSIVE Insert(_, _)
Insert(xs, x) ==
    IF xs = <<>> THEN <<x>>
    ELSE IF FracGt(SortKey(xs[Len(xs)]), SortKey(x))
         THEN Append(Insert(SubSeq(xs, 1, Len(xs) - 1), x), xs[Len(xs)])
         ELSE Append(xs, x)

\* the stable ascending sort of list.sort
RECURSIVE StableSort(_)
StableSort(xs) ==
    IF xs = <<>> THEN <<>>
    ELSE Insert(StableSort(SubSeq(xs, 1, Len(xs) - 1)), xs[Len(xs)])

\* a descending sort that reverses the ascending one once, at the end
sorted_reverse_unstable(xs) == Reverse(StableSort(xs))

\* sorted(xs, key=..., reverse=True): the list is reversed, sorted
\* ascending and stably, and reversed again
sorted_reverse(xs) == Reverse(StableSort(Reverse(xs)))

\* the overall figures the second loop adds to a result
with_overall(result) ==
    LET overall_avg_score == HalfSum(result.fundamental_avg_score,
                                     result.technical_avg_score)
    IN  result @@
        [overall_avg_score |-> overall_avg_score,
         overall_total_score |-> result.fundamental_total_score
                                 + result.technical_total_score,
         overall_rating |-> rating(overall_avg_score)]

\* what the quote service may answer for a ticker of the batch: an error,
\* an unsupported class, or an equity or ETF whose trailingPE (the field
\* both classes read) is absent, a string, below or above its band, with
\* an empty price history or one whose indicators all score best
BatchAnswers(symbol) ==
    {[kind |-> "raises"], Unsupported(symbol)}
    \cup {[kind |-> "info",
           info |-> InfoDict(symbol, quote_type, FieldBands(quote_type),
                             S, cls),
           hist |-> hist] :
            quote_type \in {"EQUITY", "ETF"},
            S \in SUBSET {"trailingPE"},
            cls \in [{"trailingPE"} -> {"str", "below", "above"}],
            hist \in {[kind |-> "empty"], Bars("best", TRUE)}}

Init ==
    /\ pc = "collect"
    /\ tkr = 1
    /\ resultList = <<>>
    /\ sorted_results = <<>>
    /\ csv = <<>>
    /\ arg = Nil
    /\ ret = Nil

\* one turn of the first loop
AnalyzeTicker ==
    /\ pc = "collect"
    /\ \E quote \in BatchAnswers(watch_list[tkr]) :
         LET result == analyze_ticker(watch_list[tkr], quote)
         IN  IF result.exc # ""
             THEN /\ pc' = "aborted"
                  /\ UNCHANGED <<tkr, resultList>>
             ELSE /\ resultList' = Append(resultList, result)
                  /\ tkr' = tkr + 1
                  /\ pc' = IF tkr = WatchLen THEN "overall" ELSE "collect"
    /\ UNCHANGED <<arg, ret, sorted_results, csv>>

\* the second loop
ComputeOverall ==
    /\ pc = "overall"
    /\ resultList' = [k \in 1..Len(resultList) |-> with_overall(resultList[k])]
    /\ pc' = "sort"
    /\ UNCHANGED <<arg, ret, tkr, sorted_results, csv>>

SortResults ==
    /\ pc = "sort"
    /\ sorted_results' = sorted_reverse(resultList)
    /\ pc' = "save"
    /\ UNCHANGED <<arg, ret, tkr, resultList, csv>>

SaveCsv ==
    /\ pc = "save"
    /\ csv' = sorted_results
    /\ pc' = "done"
    /\ UNCHANGED <<arg, ret, tkr, resultList, sorted_results>>

Next == AnalyzeTicker \/ ComputeOverall \/ SortResults \/ SaveCsv

Spec == Init /\ [][Next]_vars

----------------------------------------------------------------------------
(* C1.  The table of section 4.1 of the specification: band and direction  *)
(* of every metric.                                                        *)

Table41 ==
    [PE              |-> [low |-> 1000, high |-> 2500,  dir |-> "LessIsBetter"],
     PB              |-> [low |-> 100,  high |-> 500,   dir |-> "LessIsBetter"],
     Beta            |-> [low |-> 80,   high |-> 120,   dir |-> "LessIsBetter"],
     ROE             |-> [low |-> 10,   high |-> 20,    dir |-> "MoreIsBetter"],
     DividendYield   |-> [low |-> 200,  high |-> 600,   dir |-> "MoreIsBetter"],
     PEG             |-> [low |-> 100,  high |-> 200,   dir |-> "LessIsBetter"],
     OperatingMargin |-> [low |-> 10,   high |-> 30,    dir |-> "MoreIsBetter"],
     DebtToEquity    |-> [low |-> 5000, high |-> 10000, dir |-> "LessIsBetter"],
     CurrentRatio    |-> [low |-> 100,  high |-> 200,   dir |-> "MoreIsBetter"],
     QuickRatio      |-> [low |-> 100,  high |-> 200,   dir |-> "MoreIsBetter"],
     RevenueGrowth   |-> [low |-> 5,    high |-> 20,    dir |-> "MoreIsBetter"],
     EarningsGrowth  |-> [low |-> 5,    high |-> 20,    dir |-> "MoreIsBetter"],
     ETF_PE          |-> [low |-> 1000, high |-> 2500,  dir |-> "LessIsBetter"],
     ETF_Yield       |-> [low |-> 200,  high |-> 600,   dir |-> "MoreIsBetter"],
     ETF_Beta3Y      |-> [low |-> 80,   high |-> 120,   dir |-> "MidIsBetter"],
     threeYearAverageReturn |-> [low |-> 3, high |-> 10, dir |-> "MoreIsBetter"],
     fiveYearAverageReturn  |-> [low |-> 3, high |-> 10, dir |-> "MoreIsBetter"],
     totalAssets     |-> [low |-> 100,  high |-> 500,   dir |-> "MoreIsBetter"]]

\* the scores of the three cases LOW, MID, HIGH for a direction
DirectionScores(dir) ==
    CASE dir = "LessIsBetter" -> [LOW |-> 10, MID |-> 5, HIGH |-> 2]
      [] dir = "MoreIsBetter" -> [LOW |-> 2,  MID |-> 5, HIGH |-> 10]
      [] dir = "MidIsBetter"  -> [LOW |-> 6,  MID |-> 8, HIGH |-> 4]

\* the level of a number against a band; a value equal to a bound is MID
BandLevel(value, row) ==
    IF value.kind = "num" /\ value.n < row.low THEN "LOW"
    ELSE IF value.kind = "num" /\ value.n > row.high THEN "HIGH"
    ELSE "MID"

\* the calls C1 is about: a metric of the table it is called with, and a
\* value that is a number
TableCall(call) ==
    /\ call.value.kind \in {"num", "nan"}
    /\ \/ call.fn = "compare_with_threshold"
          /\ call.metric_key \in DOMAIN THRESHOLDS
       \/ call.fn = "etf_compare_with_threshold"
          /\ call.metric_key \in DOMAIN ETF_THRESHOLDS

\* C1: for every metric of the two tables and every numeric value, the
\* classifier returns the level of the value against the band of section
\* 4.1 (a value equal to low or to high is MID) and the score that the
\* metric's direction gives that level.
C1_LevelAndScoreByDirection ==
    (pc = "classified" /\ TableCall(arg)) =>
        LET row == Table41[arg.metric_key]
            level == BandLevel(arg.value, row)
        IN  /\ ret.exc = ""
            /\ ret.level = level
            /\ ret.score = DirectionScores(row.dir)[level]

\* a value exactly equal to low has been classified MID, for the
\* interior-best metric and for a less-is-better one
C1_Witness ==
    /\ pc = "classified"
    /\ arg.metric_key \in {"ETF_Beta3Y", "PE"}
    /\ arg.value = Num(Table41[arg.metric_key].low)
    /\ ret.level = "MID"
    /\ ret.score \in {8, 5}

----------------------------------------------------------------------------
(* The technical evaluator on its own: a call with a bag of indicator      *)
(* values, each absent, nan or a number either side of what it is compared *)
(* with, then its return.                                                  *)

OscillatorValues(band) ==
    {None, NaN, Num(band.low - 1), Num(band.low), Num(band.high),
     Num(band.high + 1)}

LineValues == {None, NaN, Num(0), Num(1)}

VolumeTrends == {"None", "increasing", "decreasing", "stable"}

IndicatorBags ==
    [RSI : OscillatorValues(TECHNICAL_THRESHOLDS.RSI),
     MACD : LineValues, MACD_Signal : LineValues,
     SMA_50 : LineValues, SMA_200 : LineValues,
     ADX : OscillatorValues(TECHNICAL_THRESHOLDS.ADX),
     Volume_Trend : VolumeTrends]

InitTechnical ==
    /\ pc = "evaluate"
    /\ arg \in IndicatorBags
    /\ ret = Nil
    /\ Idle

TechnicalCompareWithThreshold ==
    /\ pc = "evaluate"
    /\ ret' = technical_compare_with_threshold(arg)
    /\ pc' = "evaluated"
    /\ UNCHANGED <<arg, tkr, resultList, sorted_results, csv>>

NextTechnical == TechnicalCompareWithThreshold

SpecTechnical == InitTechnical /\ [][NextTechnical]_vars

----------------------------------------------------------------------------
(* C6.  The five signals as section 4.3 of the specification scores them:  *)
(* <<score, 1>> for a signal whose data is there, <<0, 0>> otherwise.      *)

OscillatorScore(ind) ==
    IF ind.RSI = None THEN <<0, 0>>
    ELSE IF ind.RSI.kind = "num" /\ ind.RSI.n < 3000 THEN <<8, 1>>
    ELSE IF ind.RSI.kind = "num" /\ ind.RSI.n > 7000 THEN <<6, 1>>
    ELSE <<7, 1>>

TrendPairScore(ind) ==
    IF ind.MACD = None \/ ind.MACD_Signal = None THEN <<0, 0>>
    ELSE IF ind.MACD.kind = "num" /\ ind.MACD_Signal.kind = "num"
            /\ ind.MACD.n > ind.MACD_Signal.n THEN <<8, 1>>
    ELSE <<6, 1>>

AveragePairScore(ind) ==
    IF ind.SMA_50 = None \/ ind.SMA_200 = None THEN <<0, 0>>
    ELSE IF ind.SMA_50.kind = "num" /\ ind.SMA_200.kind = "num"
            /\ ind.SMA_50.n > ind.SMA_200.n THEN <<9, 1>>
    ELSE <<5, 1>>

StrengthScore(ind) ==
    IF ind.ADX = None THEN <<0, 0>>
    ELSE IF ind.ADX.kind = "num" /\ ind.ADX.n < 2000 THEN <<5, 1>>
    ELSE IF ind.ADX.kind = "num" /\ ind.ADX.n > 4000 THEN <<8, 1>>
    ELSE <<6, 1>>

VolumeScore(ind) ==
    CASE ind.Volume_Trend = "None" -> <<0, 0>>
      [] ind.Volume_Trend = "increasing" -> <<7, 1>>
      [] ind.Volume_Trend = "decreasing" -> <<5, 1>>
      [] OTHER -> <<6, 1>>

SignalScores(ind) ==
    <<OscillatorScore(ind), TrendPairScore(ind), AveragePairScore(ind),
      StrengthScore(ind), VolumeScore(ind)>>

SignalTotal(ind) ==
    LET sc == SignalScores(ind)
    IN  sc[1][1] + sc[2][1] + sc[3][1] + sc[4][1] + sc[5][1]

SignalCount(ind) ==
    LET sc == SignalScores(ind)
    IN  sc[1][2] + sc[2][2] + sc[3][2] + sc[4][2] + sc[5][2]

\* C6: the evaluator returns as total the sum of the scores of exactly the
\* signals whose data is there, scored as section 4.3 says, and as average
\* total / validCount, 0 when no signal is there; a signal with a missing
\* component adds nothing to either.
C6_TechnicalTotalAndAverage ==
    pc = "evaluated" =>
        /\ ret.total_score = SignalTotal(arg)
        /\ ret.avg_score = IF SignalCount(arg) = 0 THEN Zero
                           ELSE Frac(SignalTotal(arg), SignalCount(arg))

\* the moving-average pair lacks its long component and three other signals
\* are there: the evaluator has returned the total and average of those
\* three alone
C6_Witness ==
    /\ pc = "evaluated"
    /\ arg.SMA_50 = Num(1) /\ arg.SMA_200 = None
    /\ arg.RSI = Num(2999) /\ arg.MACD = Num(1) /\ arg.MACD_Signal = Num(0)
    /\ arg.ADX = None /\ arg.Volume_Trend = "stable"
    /\ ret.total_score = 22
    /\ ret.avg_score = Frac(22, 3)

----------------------------------------------------------------------------
(* The specifications that put several of the above side by side.          *)

\* the classifiers, the technical evaluator and one instrument
InitMetrics == InitClassify \/ InitTechnical \/ InitScore

NextMetrics == NextClassify \/ NextTechnical \/ NextScore

SpecMetrics == InitMetrics /\ [][NextMetrics]_vars

\* one instrument, and the script
InitRated == InitScore \/ Init

NextRated == NextScore \/ Next

SpecRated == InitRated /\ [][NextRated]_vars

----------------------------------------------------------------------------
(* What the claims about one instrument share: the raw fields that feed    *)
(* each metric of a snapshot, and the score section 4.1 gives a value.     *)

\* the call scored an equity or an ETF
ScoredCall(call) ==
    call.kind = "info" /\ call.info.quoteType \in {"EQUITY", "ETF"}

\* metric, raw fields in the order they are consulted, factor applied
EquitySources ==
    << [k |-> "PE", fields |-> <<"trailingPE">>, scale |-> 1],
       [k |-> "PB", fields |-> <<"priceToBook">>, scale |-> 1],
       [k |-> "Beta", fields |-> <<"beta">>, scale |-> 1],
       [k |-> "ROE", fields |-> <<"returnOnEquity">>, scale |-> 1],
       [k |-> "DividendYield", fields |-> <<"dividendYield">>, scale |-> 100],
       [k |-> "PEG", fields |-> <<"trailingPegRatio", "pegRatio">>,
        scale |-> 1],
       [k |-> "OperatingMargin", fields |-> <<"operatingMargins">>,
        scale |-> 1],
       [k |-> "DebtToEquity", fields |-> <<"debtToEquity">>, scale |-> 1],
       [k |-> "CurrentRatio", fields |-> <<"currentRatio">>, scale |-> 1],
       [k |-> "QuickRatio", fields |-> <<"quickRatio">>, scale |-> 1],
       [k |-> "RevenueGrowth", fields |-> <<"revenueGrowth">>, scale |-> 1],
       [k |-> "EarningsGrowth",
        fields |-> <<"earningsQuarterlyGrowth", "earningsGrowth">>,
        scale |-> 1] >>

EtfSources ==
    << [k |-> "ETF_PE", fields |-> <<"trailingPE">>, scale |-> 1],
       [k |-> "ETF_Yield", fields |-> <<"yield">>, scale |-> 100],
       [k |-> "totalAssets", fields |-> <<"totalAssets">>, scale |-> 1],
       [k |-> "ETF_Beta3Y", fields |-> <<"beta3Year">>, scale |-> 1],
       [k |-> "threeYearAverageReturn",
        fields |-> <<"threeYearAverageReturn">>, scale |-> 1],
       [k |-> "fiveYearAverageReturn",
        fields |-> <<"fiveYearAverageReturn">>, scale |-> 1] >>

SourcesOf(info) ==
    IF info.quoteType = "EQUITY" THEN EquitySources ELSE EtfSources

\* the raw value of a metric in a snapshot: that of the first of its fields
\* the snapshot holds, None when it holds none of them
SnapshotValue(info, src) ==
    LET held == {j \in 1..Len(src.fields) : src.fields[j] \in DOMAIN info}
        first == CHOOSE j \in held : \A i \in held : j <= i
        v == info[src.fields[first]]
    IN  IF held = {} THEN None
        ELSE IF v.kind = "num" THEN Num(v.n * src.scale)
        ELSE v

\* the score section 4.1 gives the value of a metric
TableScore(k, value) ==
    DirectionScores(Table41[k].dir)[BandLevel(value, Table41[k])]

\* the line that records metric k as missing
MissingLine(k) == <<"- ", k, ": ", MISSING>>

HasLine(text, line) == \E j \in 1..Len(text) : text[j] = line

----------------------------------------------------------------------------
\* C4: scoring an equity or an ETF never raises because of a metric value:
\* every metric whose raw value is absent or not a number is recorded as a
\* 'missing' line, adds nothing to the fundamental total and is not counted
\* among the valid metrics.
C4_NonNumericIsMissing ==
    (pc \in {"analyzed", "raised"} /\ ScoredCall(arg)) =>
        /\ ret.exc = ""
        /\ \A j \in 1..Len(SourcesOf(arg.info)) :
              LET src == SourcesOf(arg.info)[j]
              IN  SnapshotValue(arg.info, src).kind \in {"None", "str"} =>
                    /\ HasLine(ret.analysis_text, MissingLine(src.k))
                    /\ \A i \in 1..Len(ret.levels) : ret.levels[i].k # src.k

----------------------------------------------------------------------------
\* the snapshot holds numbers only
NumericSnapshot(info) ==
    \A f \in DOMAIN info \ {"quoteType", "symbol", "shortName"} :
        info[f].kind \in {"num", "nan"}

\* the sum, over the metrics the snapshot holds, of their table scores
RECURSIVE PresentTotal(_, _, _)
PresentTotal(info, sources, n) ==
    IF n = 0 THEN 0
    ELSE LET v == SnapshotValue(info, sources[n])
         IN  PresentTotal(info, sources, n - 1)
             + (IF v = None THEN 0 ELSE TableScore(sources[n].k, v))

PresentCount(info, sources) ==
    Cardinality({j \in 1..Len(sources) :
                    SnapshotValue(info, sources[j]) # None})

\* C5: for any set of metrics a snapshot holds (as numbers): when it is
\* empty the fundamental average and total are 0 and the rating is
\* 'unratable'; otherwise the average is the sum of the scores of exactly
\* the metrics held, divided by their number.
C5_AverageOverPresentMetrics ==
    (pc \in {"analyzed", "raised"} /\ ScoredCall(arg)
        /\ NumericSnapshot(arg.info)) =>
        LET sources == SourcesOf(arg.info)
            total == PresentTotal(arg.info, sources, Len(sources))
            count == PresentCount(arg.info, sources)
        IN  /\ ret.exc = ""
            /\ ret.fundamental_total_score = total
            /\ IF count = 0
               THEN /\ ret.fundamental_avg_score = Zero
                    /\ ret.fundamental_rating = UNRATABLE
               ELSE ret.fundamental_avg_score = Frac(total, count)

----------------------------------------------------------------------------
(* C9.                                                                     *)

Levels == {"LOW", "MID", "HIGH"}

\* the range of the score of a fundamental metric
ScoreRange(k) == IF k = "ETF_Beta3Y" THEN 2..8 ELSE 0..10

\* the scores of the lines of a text that carry one
RECURSIVE LineScores(_)
LineScores(text) ==
    IF text = <<>> THEN <<>>
    ELSE IF Contains(text[1], "(score=")
         THEN <<ParseScore(text[1])>> \o LineScores(Tail(text))
         ELSE LineScores(Tail(text))

RECURSIVE LevelTotal(_)
LevelTotal(levels) ==
    IF levels = <<>> THEN 0 ELSE levels[1].score + LevelTotal(Tail(levels))

MissingLines(text) ==
    Cardinality({j \in 1..Len(text) :
                    Len(text[j]) = 4 /\ text[j][4] = MISSING})

\* a classifier called with a number or no value returns a level with a
\* score in range, or the absent classification, which is what an absent
\* value or a metric without a band gets
ClassifiedInRange ==
    (pc = "classified" /\ arg.value.kind # "str") =>
        LET table == IF arg.fn = "compare_with_threshold"
                     THEN THRESHOLDS ELSE ETF_THRESHOLDS
            absent == arg.value = None \/ arg.metric_key \notin DOMAIN table
        IN  /\ ret.exc = ""
            /\ IF absent
               THEN ret.level = "None" /\ ret.score = 0
               ELSE ret.level \in Levels
                    /\ ret.score \in ScoreRange(arg.metric_key)

\* the evaluator: every signal line carries a score from 4 to 9 or is a
\* 'missing' line, and total and average are those of the scored lines
SignalsInRange ==
    pc = "evaluated" =>
        LET scores == LineScores(ret.comments)
        IN  /\ \A j \in 1..Len(ret.comments) :
                  \/ Contains(ret.comments[j], "(score=")
                  \/ Contains(ret.comments[j], MISSING)
            /\ \A j \in 1..Len(scores) : scores[j] \in 4..9
            /\ ret.total_score = SeqSum(scores)
            /\ ret.avg_score = IF scores = <<>> THEN Zero
                               ELSE Frac(SeqSum(scores), Len(scores))

\* the scorer, given a snapshot of numbers: every metric is either
\* classified, with a level and a score in range, or recorded missing; only
\* the classified ones are counted and summed
CountedInRange ==
    (pc \in {"analyzed", "raised"} /\ ScoredCall(arg)
        /\ NumericSnapshot(arg.info)) =>
        /\ ret.exc = ""
        /\ \A j \in 1..Len(ret.levels) :
              /\ ret.levels[j].level \in Levels
              /\ ret.levels[j].score \in ScoreRange(ret.levels[j].k)
        /\ Len(ret.levels) + MissingLines(ret.analysis_text)
             = Len(SourcesOf(arg.info))
        /\ ret.fundamental_valid_count = Len(ret.levels)
        /\ ret.fundamental_total_score = LevelTotal(ret.levels)
        /\ ret.fundamental_avg_score =
             IF ret.levels = <<>> THEN Zero
             ELSE Frac(LevelTotal(ret.levels), Len(ret.levels))

\* C9: every classification of a metric value (a number or no value, as
\* the contract of the classifier has it) yields a level of LOW, MID, HIGH
\* with a score in its range (0 to 10 for a fundamental metric, 2 to 8 for
\* ETF_Beta3Y, 4 to 9 for a technical signal) or is absent, as it is when
\* the value is absent or the metric has no band; an absent classification
\* adds nothing to the total and is not counted for the average.
C9_LevelInRangeOrAbsent ==
    ClassifiedInRange /\ SignalsInRange /\ CountedInRange

\* an ETF with two of its six metrics held has been scored: ETF_Beta3Y in
\* its band scores 8, four metrics are recorded missing, two are counted
C9_Witness ==
    /\ pc = "analyzed"
    /\ arg.info.quoteType = "ETF"
    /\ ret.fundamental_valid_count = 2
    /\ MissingLines(ret.analysis_text) = 4
    /\ \E j \in 1..Len(ret.levels) :
          ret.levels[j] = [k |-> "ETF_Beta3Y", level |-> "MID", score |-> 8]

----------------------------------------------------------------------------
(* C10.                                                                    *)

\* the answer with a price history whose indicators can all be computed
WithBars(call) == [call EXCEPT !.hist = Bars("best", TRUE)]

\* the fundamental figures of a result
Fundamentals(result) ==
    <<result.fundamental_total_score, result.fundamental_avg_score,
      result.fundamental_rating, result.fundamental_valid_count,
      result.levels>>

\* C10: when the scorer, given a snapshot of numbers, finds the price
\* history empty, or the download or an indicator raises, scoring completes
\* without an exception, with technical total and average 0 and technical
\* rating 'unratable', and with the fundamental total, average and rating
\* the same snapshot gets with a usable history.
C10_TechnicalFailureDegrades ==
    (pc \in {"analyzed", "raised"} /\ ScoredCall(arg)
        /\ NumericSnapshot(arg.info)
        /\ arg.hist.kind \in {"empty", "raises"}) =>
        LET usable == analyze_ticker("T1", WithBars(arg))
        IN  /\ ret.exc = ""
            /\ ret.technical_total_score = 0
            /\ ret.technical_valid_count = 0
            /\ ret.technical_avg_score = Zero
            /\ ret.technical_rating = UNRATABLE
            /\ usable.exc = ""
            /\ Fundamentals(ret) = Fundamentals(usable)

\* an indicator raised for an equity whose two held metrics both score 10:
\* the result is rated A on fundamentals and unratable on technicals
C10_Witness ==
    /\ pc = "analyzed"
    /\ arg.info.quoteType = "EQUITY"
    /\ arg.hist.kind = "raises"
    /\ ret.fundamental_valid_count = 2
    /\ ret.fundamental_rating = "A"
    /\ ret.technical_rating = UNRATABLE
    /\ ret.technical_avg_score = Zero

----------------------------------------------------------------------------
(* C2.                                                                     *)

\* the letter of an average: each lower bound belongs to its band
BandLetter(avg) ==
    IF avg.num >= 8 * avg.den THEN "A"
    ELSE IF avg.num >= 5 * avg.den THEN "B"
    ELSE IF avg.num >= 3 * avg.den THEN "C"
    ELSE "D"

\* the two category ratings of a result: a category with a valid score
\* carries the letter of its average
CategoriesRated(result) ==
    /\ result.fundamental_valid_count > 0 =>
          result.fundamental_rating = BandLetter(result.fundamental_avg_score)
    /\ result.technical_valid_count > 0 =>
          result.technical_rating = BandLetter(result.technical_avg_score)

\* C2: the rating of an average is A from 8, B from 5 to below 8, C from 3
\* to below 5 and D below 3, and this one rule gives the fundamental and
\* the technical rating of every instrument that has a valid score in the
\* category, equity or ETF, and the overall rating of every instrument.
C2_RatingBands ==
    /\ pc = "analyzed" => CategoriesRated(ret)
    /\ \A j \in 1..Len(resultList) :
          /\ CategoriesRated(resultList[j])
          /\ "overall_rating" \in DOMAIN resultList[j] =>
                resultList[j].overall_rating
                    = BandLetter(resultList[j].overall_avg_score)

\* an ETF whose fundamental average is exactly 3 is rated C and whose
\* technical average is exactly 8 is rated A
C2_Witness ==
    /\ pc = "analyzed"
    /\ arg.info.quoteType = "ETF"
    /\ ret.fundamental_avg_score = Frac(3, 1)
    /\ ret.fundamental_rating = "C"
    /\ ret.technical_avg_score = Frac(8, 1)
    /\ ret.technical_rating = "A"

----------------------------------------------------------------------------
(* C3.                                                                     *)

\* the script has stopped
Stopped == pc \in {"done", "aborted"}

\* the ticker whose evaluation raised
Failed(k) == pc = "aborted" /\ k = tkr

\* C3: an error raised while one instrument is evaluated does not end the
\* batch: once the script has stopped, every other instrument of the watch
\* list is in the ranked report.
C3_ErrorIsolation ==
    Stopped =>
        \A k \in 1..WatchLen :
            Failed(k) \/ \E j \in 1..Len(csv) : csv[j].symbol = watch_list[k]

----------------------------------------------------------------------------
(* C7.                                                                     *)

\* where the result of a ticker stands in a list
Position(list, symbol) == CHOOSE j \in 1..Len(list) : list[j].symbol = symbol

\* C7: the ranked report is a permutation of the scored instruments in
\* order of non-increasing overall average, and instruments with equal
\* overall averages keep the order they have in the input.
C7_StableDescendingRanking ==
    pc \in {"save", "done"} =>
        /\ Len(sorted_results) = Len(resultList)
        /\ \A j \in 1..Len(resultList) :
              \E i \in 1..Len(sorted_results) :
                  sorted_results[i] = resultList[j]
        /\ \A i \in 1..Len(sorted_results) - 1 :
              ~ FracGt(sorted_results[i + 1].overall_avg_score,
                       sorted_results[i].overall_avg_score)
        /\ \A i, j \in 1..Len(resultList) :
              (i < j /\ resultList[i].overall_avg_score
                          = resultList[j].overall_avg_score) =>
                  Position(sorted_results, resultList[i].symbol)
                      < Position(sorted_results, resultList[j].symbol)

\* overall averages 5, 9, 5 in input order T1, T2, T3 are ranked T2, T1, T3
C7_Witness ==
    /\ pc = "done"
    /\ Len(resultList) >= 3
    /\ resultList[1].overall_avg_score = Frac(5, 1)
    /\ resultList[2].overall_avg_score = Frac(9, 1)
    /\ resultList[3].overall_avg_score = Frac(5, 1)
    /\ Position(sorted_results, "T2") < Position(sorted_results, "T1")
    /\ Position(sorted_results, "T1") < Position(sorted_results, "T3")

----------------------------------------------------------------------------
(* C8.                                                                     *)

\* C8: for every instrument score of the batch, unratable categories and
\* unsupported classes included, the overall average is half the sum of
\* the fundamental and the technical average, the overall total is the sum
\* of the two totals, and the overall rating is the letter of the overall
\* average.
C8_OverallFigures ==
    pc \in {"sort", "save", "done"} =>
        \A j \in 1..Len(resultList) :
            LET r == resultList[j]
                f == r.fundamental_avg_score
                t == r.technical_avg_score
                o == r.overall_avg_score
            IN  /\ 2 * o.num * f.den * t.den
                     = o.den * (f.num * t.den + t.num * f.den)
                /\ r.overall_total_score
                     = r.fundamental_total_score + r.technical_total_score
                /\ r.overall_rating = BandLetter(o)

\* the batch holds an instrument of an unsupported class, rated D overall
\* with average 0, and one with no valid fundamental metric whose technical
\* average 8 gives the overall average 4 and the letter C
C8_Witness ==
    /\ pc = "done"
    /\ \E j \in 1..Len(resultList) :
          /\ resultList[j].analysis_text[1][2] = " quoteType="
          /\ resultList[j].overall_avg_score = Zero
          /\ resultList[j].overall_rating = "D"
    /\ \E j \in 1..Len(resultList) :
          /\ resultList[j].fundamental_rating = UNRATABLE
          /\ resultList[j].technical_avg_score = Frac(8, 1)
          /\ resultList[j].overall_avg_score = Frac(4, 1)
          /\ resultList[j].overall_total_score = 40
          /\ resultList[j].overall_rating = "C"

----------------------------------------------------------------------------
(* C11.                                                                    *)

\* the fixed remark on investment suitability section 4.4 step 7 of the
\* specification appends to an ETF narrative
SuitabilityRemark == "investment suitability remark"

\* the last line of a narrative
LastLine(text) == text[Len(text)]

\* the narrative carries the remark
HasRemark(text) ==
    \E j \in 1..Len(text) : Contains(text[j], SuitabilityRemark)

\* C11: the narrative of every instrument scored as an ETF ends with the
\* ETF-only augmentation, whose fixed remark on investment suitability is
\* appended to every ETF narrative, and no equity narrative contains it.
C11_EtfAugmentation ==
    (pc = "analyzed" /\ ScoredCall(arg)) =>
        IF arg.info.quoteType = "ETF"
        THEN Contains(LastLine(ret.analysis_text), SuitabilityRemark)
        ELSE ~ HasRemark(ret.analysis_text)

----------------------------------------------------------------------------
(* The technical signals of one instrument: analyze_ticker called for an   *)
(* equity or an ETF whose snapshot holds no metric and whose price history *)
(* gives every combination of indicator values, beside the evaluator       *)
(* called on its own.                                                      *)

\* the two mean volumes behind a volume trend; a history too short for the
\* two windows gives nan means
MeanVolumes(trend) ==
    CASE trend = "increasing" -> <<Num(1), Num(0)>>
      [] trend = "decreasing" -> <<Num(0), Num(1)>>
      [] trend = "stable"     -> <<Num(1), Num(1)>>
      [] OTHER                -> <<NaN, NaN>>

\* the price history whose indicators are those of a bag
BarsOf(bag) ==
    [kind |-> "bars",
     RSI |-> bag.RSI, MACD |-> bag.MACD, MACD_Signal |-> bag.MACD_Signal,
     SMA_50 |-> bag.SMA_50, SMA_200 |-> bag.SMA_200, ADX |-> bag.ADX,
     recent_vol |-> MeanVolumes(bag.Volume_Trend)[1],
     previous_vol |-> MeanVolumes(bag.Volume_Trend)[2]]

InitSignals ==
    \/ InitTechnical
    \/ /\ pc = "analyze"
       /\ \E quote_type \in {"EQUITY", "ETF"}, bag \in IndicatorBags :
            arg = [kind |-> "info",
                   info |-> [quoteType |-> quote_type, symbol |-> "T1",
                             shortName |-> "name"],
                   hist |-> BarsOf(bag)]
       /\ ret = Nil
       /\ Idle

NextSignals == NextTechnical \/ NextScore

SpecSignals == InitSignals /\ [][NextSignals]_vars

----------------------------------------------------------------------------
(* C12.                                                                    *)

\* the indicators of a price history as the evaluator is given them
SignalInputs(hist) ==
    [RSI |-> hist.RSI, MACD |-> hist.MACD, MACD_Signal |-> hist.MACD_Signal,
     SMA_50 |-> hist.SMA_50, SMA_200 |-> hist.SMA_200, ADX |-> hist.ADX,
     Volume_Trend |->
        IF hist.recent_vol.kind = "num" /\ hist.previous_vol.kind = "num"
           /\ hist.recent_vol.n > hist.previous_vol.n THEN "increasing"
        ELSE IF hist.recent_vol.kind = "num" /\ hist.previous_vol.kind = "num"
                /\ hist.recent_vol.n < hist.previous_vol.n THEN "decreasing"
        ELSE "stable"]

\* 5 <= avg <= 9
FiveToNine(avg) == 5 * avg.den <= avg.num /\ avg.num <= 9 * avg.den

\* every signal at its highest score
HighestScores == << <<8, 1>>, <<8, 1>>, <<9, 1>>, <<8, 1>>, <<7, 1>> >>

\* C12: for every combination of present and missing technical signals
\* with at least one present, the technical average lies between 5 and 9,
\* so the technical rating of the instrument is A or B, never C or D; with
\* all five signals present the rating is A only when every signal takes
\* its highest score (8, 8, 9, 8, 7), the average then being exactly 8.
C12_TechnicalAverageFiveToNine ==
    /\ (pc = "evaluated" /\ SignalCount(arg) > 0) => FiveToNine(ret.avg_score)
    /\ (pc = "analyzed" /\ ScoredCall(arg) /\ arg.hist.kind = "bars") =>
          LET ind == SignalInputs(arg.hist)
          IN  /\ SignalCount(ind) > 0 =>
                    /\ ret.technical_valid_count = SignalCount(ind)
                    /\ FiveToNine(ret.technical_avg_score)
                    /\ ret.technical_rating \in {"A", "B"}
              /\ (SignalCount(ind) = 5 /\ ret.technical_rating = "A") =>
                    /\ SignalScores(ind) = HighestScores
                    /\ ret.technical_avg_score = Frac(8, 1)

\* an ETF with all five signals at their highest score is rated A on
\* technicals with the average exactly 8
C12_Witness ==
    /\ pc = "analyzed"
    /\ arg.info.quoteType = "ETF"
    /\ arg.hist.kind = "bars"
    /\ SignalScores(SignalInputs(arg.hist)) = HighestScores
    /\ ret.technical_valid_count = 5
    /\ ret.technical_total_score = 40
    /\ ret.technical_avg_score = Frac(8, 1)
    /\ ret.technical_rating = "A"

\* a lone death cross beside a falling volume: the lowest average, 5, is
\* rated B
C12_LowestAverage ==
    /\ pc = "analyzed"
    /\ ret.technical_valid_count = 2
    /\ ret.technical_avg_score = Frac(5, 1)
    /\ ret.technical_rating = "B"

====
